---- MODULE Spec2Model ----
(***************************************************************************)
(* ghopac: the producer / worker-pool / aggregator pipeline of main.go.    *)
(*                                                                         *)
(* main starts `concurrency` workers, enumerates the configured orgs (paged *)
(* remote listing) and syncpoints onto the buffered channel synclist,      *)
(* closes it, folds the workers' results into allGood and exits.  Each     *)
(* worker ranges over synclist and runs one git command per source.        *)
(*                                                                         *)
(* Outside the program: the filesystem (read by exists, written by git     *)
(* clone and by anybody else), the GitHub listing API and the git          *)
(* commands.  Their answers are nondeterministic choices.                  *)
(***************************************************************************)
EXTENDS Integers, Sequences, FiniteSets, TLC

\* ---- bounds of the model ----
MaxEntries == 2       \* configured orgs and syncpoints together
MaxPages == 2         \* pages the listing API serves for one org
MaxPerPage == 1       \* repositories on one page: 0..MaxPerPage
MaxConcurrency == 2   \* configured "concurrency": -1..MaxConcurrency
HostCPUs == 1         \* what runtime.NumCPU() answers on the host
SynclistCap == 2      \* buffer of synclist (1000 in main.go:158, scaled down)
MaxFsRemovals == 1    \* directories removed from outside during the run
MaxRuns == 2          \* times the program is run in a row

\* ---- values ----
NoURL == <<>>         \* SyncSource.CloneURL == nil
NoCmd == [kind |-> "nil", prune |-> FALSE, url |-> <<>>, dir |-> <<>>]  \* nil *exec.Cmd
NoSource == [id |-> 0, Path |-> <<>>, CloneURL |-> NoURL]
Running == "running"  \* the process has not exited yet

\* ConfigOrg of the i-th configured org, with base directory b.
ConfigOrg(i, b) == [Org |-> i, Path |-> <<b>>]

\* The syncpoints a configuration may name: a directory of its own, and the
\* directory of the first repository of org 1 (base directory 1).
ExtraChoices == {<<100>>, <<1, 11>>}

\* github.Repository as served on page p, position k, of org o's listing.
Repo(o, p, k) == [Name |-> 10 * p + k, SSHURL |-> <<"git@", o, 10 * p + k>>]

\* filepath.Join(dir, name)
Join(dir, name) == Append(dir, name)

SeqsUpTo(S, n) == UNION {[1..k -> S] : k \in 0..n}

VARIABLES
    config,     \* Config: Orgs, ExtraPaths, Concurrency
    fs,         \* the directories that exist
    fsRemovals, \* how many directories were removed from outside
    synclist,   \* the channel's buffer
    closed,     \* close(synclist) happened
    drains,     \* drains[w]: the buffer of worker w's result channel
    pc,         \* where main is
    spawned,    \* workers started so far (loop variable i, lines 159-162)
    allGood,    \* main's allGood
    oi,         \* index into config.Orgs
    page,       \* options.ListOptions.Page
    repos,      \* the repositories of the page being pushed
    ri,         \* index into repos
    nextPage,   \* response.NextPage
    ei,         \* index into config.ExtraPaths
    di,         \* index into drains
    exitCode,   \* Running, or how the process ended: "exit0", "exit1", "panic2"
    wpc,        \* where each worker is
    wsource,    \* the source a worker holds
    wcommand,   \* the command a worker built
    wAllGood,   \* each worker's allGood
    \* history of the run
    pushed,     \* every source sent on synclist, in order; its index is its id
    taken,      \* taken[id]: the workers that received source id
    checked,    \* checked[id]: what exists(source.Path) answered in the worker
    cmds,       \* cmds[id]: the commands started for source id
    outcome,    \* outcome[id]: how the commands for source id ended
    warned,     \* producer-level warnings logged
    listReqs,   \* listReqs[o]: ListByOrg calls made for org index o
    listing,    \* listing[o]: the pages of org index o's remote listing served so far
    reports,    \* reports[w]: the values worker w sent on its drain
    closeCount, \* number of close(synclist) calls
    \* across runs of the program
    fsStart,    \* the directories that existed when the first run started
    earlier     \* what each completed earlier run did: exit, cloned, pulled

mainVars == <<pc, spawned, allGood, oi, page, repos, ri, nextPage, ei, di>>
workerVars == <<wpc, wsource, wcommand, wAllGood>>
chanVars == <<synclist, closed, drains>>
histVars == <<pushed, taken, checked, cmds, outcome, warned, listReqs, listing,
              reports, closeCount>>
runVars == <<fsStart, earlier>>
vars == <<config, fs, fsRemovals, exitCode, mainVars, workerVars, chanVars, histVars,
          runVars>>

\* ---- pure helpers ----

\* An exists that answers from what was there when the first run started.
exists_Stale(pathname) == pathname \in fsStart

\* exists(pathname): os.Stat succeeds
exists(pathname) == pathname \in fs

\* A concurrency level taken from the configuration as it is.
Concurrency_NoDefault(conf) == conf.Concurrency

\* lines 152-155: the resolved concurrency level
Concurrency(conf) == IF conf.Concurrency > 0 THEN conf.Concurrency ELSE HostCPUs

Workers == 1..Concurrency(config)

Alive == exitCode = Running

\* An org loop that closes the channel right after the last org.
AfterOrg_CloseEarly(k) == IF k <= Len(config.Orgs) THEN "org" ELSE "close"

\* where main goes when the org loop reaches index k
AfterOrg(k) == IF k <= Len(config.Orgs) THEN "org"
               ELSE IF Len(config.ExtraPaths) > 0 THEN "extra" ELSE "close"

\* where main goes when the syncpoint loop reaches index k
AfterExtra(k) == IF k <= Len(config.ExtraPaths) THEN "extra" ELSE "close"

\* synclist <- src : the history records the new source under the next id
Send(src) ==
    /\ Len(synclist) < SynclistCap
    /\ synclist' = Append(synclist, [src EXCEPT !.id = Len(pushed) + 1])
    /\ pushed' = Append(pushed, [src EXCEPT !.id = Len(pushed) + 1])
    /\ taken' = Append(taken, <<>>)
    /\ checked' = Append(checked, <<>>)
    /\ cmds' = Append(cmds, <<>>)
    /\ outcome' = Append(outcome, <<>>)

\* The org lists a configuration may hold: the i-th org is org i, and its
\* base directory is its own or that of an earlier org.
OrgLists ==
    UNION {{[i \in 1..k |-> ConfigOrg(i, b[i])] :
               b \in {f \in [1..k -> 1..k] : \A i \in 1..k : f[i] <= i}} :
           k \in 0..MaxEntries}

Configs ==
    {c \in [Orgs : OrgLists,
            ExtraPaths : SeqsUpTo(ExtraChoices, MaxEntries),
            Concurrency : (0 - 1)..MaxConcurrency] :
        Len(c.Orgs) + Len(c.ExtraPaths) <= MaxEntries}

\* The directories a configuration names.
ConfigPaths(conf) ==
    {conf.Orgs[i].Path : i \in 1..Len(conf.Orgs)}
      \cup {conf.ExtraPaths[i] : i \in 1..Len(conf.ExtraPaths)}

\* The directories that may exist when the run starts: those the
\* configuration names, and the directory of org 1's first repository.
InitPaths(conf) ==
    ConfigPaths(conf) \cup (IF Len(conf.Orgs) > 0 THEN {<<1, 11>>} ELSE {})

Init ==
    /\ config \in Configs
    /\ fs \in SUBSET InitPaths(config)
    /\ fsRemovals = 0
    /\ synclist = <<>>
    /\ closed = FALSE
    /\ drains = [w \in Workers |-> <<>>]
    /\ pc = "spawn"
    /\ spawned = 0
    /\ allGood = TRUE
    /\ oi = 1
    /\ page = 0
    /\ repos = <<>>
    /\ ri = 1
    /\ nextPage = 0
    /\ ei = 1
    /\ di = 1
    /\ exitCode = Running
    /\ wpc = [w \in Workers |-> "unborn"]
    /\ wsource = [w \in Workers |-> NoSource]
    /\ wcommand = [w \in Workers |-> NoCmd]
    /\ wAllGood = [w \in Workers |-> TRUE]
    /\ pushed = <<>>
    /\ taken = <<>>
    /\ checked = <<>>
    /\ cmds = <<>>
    /\ outcome = <<>>
    /\ warned = {}
    /\ listReqs = [o \in 1..Len(config.Orgs) |-> 0]
    /\ listing = [o \in 1..Len(config.Orgs) |-> <<>>]
    /\ reports = [w \in Workers |-> <<>>]
    /\ closeCount = 0
    /\ fsStart = fs
    /\ earlier = <<>>

\* ---- main ----

\* lines 157-162: one iteration of the loop that starts the workers
SpawnWorker ==
    /\ Alive /\ pc = "spawn"
    /\ spawned < Concurrency(config)
    /\ spawned' = spawned + 1
    /\ wpc' = [wpc EXCEPT ![spawned + 1] = "recv"]
    /\ pc' = IF spawned + 1 < Concurrency(config) THEN "spawn" ELSE AfterOrg(1)
    /\ UNCHANGED <<config, runVars, fs, fsRemovals, exitCode, allGood, oi, page, repos, ri,
                   nextPage, ei, di, wsource, wcommand, wAllGood, chanVars, histVars>>

\* An org loop head that warns about the missing base directory and lists
\* the org all the same.
OrgCheck_WarnAndList ==
    /\ Alive /\ pc = "org"
    /\ page' = 0
    /\ pc' = "list"
    /\ IF exists(config.Orgs[oi].Path)
         THEN UNCHANGED <<allGood, warned>>
         ELSE /\ allGood' = FALSE
              /\ warned' = warned \cup {<<"nobase", oi>>}
    /\ UNCHANGED <<config, runVars, fs, fsRemovals, exitCode, spawned, oi, repos, ri, nextPage,
                   ei, di, workerVars, chanVars, pushed, taken, checked, cmds, outcome,
                   listReqs, listing, reports, closeCount>>

\* lines 165-171, 191-194: the head of one org iteration
OrgCheck ==
    /\ Alive /\ pc = "org"
    /\ IF exists(config.Orgs[oi].Path)
         THEN /\ page' = 0
              /\ pc' = "list"
              /\ UNCHANGED <<allGood, oi, warned>>
         ELSE /\ allGood' = FALSE
              /\ warned' = warned \cup {<<"nobase", oi>>}
              /\ oi' = oi + 1
              /\ pc' = AfterOrg(oi + 1)
              /\ UNCHANGED page
    /\ UNCHANGED <<config, runVars, fs, fsRemovals, exitCode, spawned, repos, ri, nextPage, ei, di,
                   workerVars, chanVars, pushed, taken, checked, cmds, outcome,
                   listReqs, listing, reports, closeCount>>

\* A paging loop that never asks for a further page.
AfterPage_IgnoreCursor(next) ==
    /\ oi' = oi + 1
    /\ pc' = AfterOrg(oi + 1)
    /\ page' = 0

\* what main does once all repositories of a page are sent (lines 186-189)
AfterPage(next) ==
    IF next = 0
      THEN /\ oi' = oi + 1
           /\ pc' = AfterOrg(oi + 1)
           /\ page' = 0
      ELSE /\ page' = next
           /\ pc' = "list"
           /\ UNCHANGED oi

\* A page error after which the same page is asked for again.
ListByOrgErr_Retry ==
    /\ Alive /\ pc = "list"
    /\ listReqs[oi] <= MaxPages
    /\ listReqs' = [listReqs EXCEPT ![oi] = @ + 1]
    /\ allGood' = FALSE
    /\ warned' = warned \cup {<<"page", oi>>}
    /\ UNCHANGED <<oi, pc, page>>
    /\ UNCHANGED <<config, runVars, fs, fsRemovals, exitCode, spawned, repos, ri, nextPage, ei, di,
                   workerVars, chanVars, pushed, taken, checked, cmds, outcome, listing,
                   reports, closeCount>>

\* lines 174-179: client.Repositories.ListByOrg fails
ListByOrgErr ==
    /\ Alive /\ pc = "list"
    /\ listReqs' = [listReqs EXCEPT ![oi] = @ + 1]
    /\ allGood' = FALSE
    /\ warned' = warned \cup {<<"page", oi>>}
    /\ oi' = oi + 1
    /\ pc' = AfterOrg(oi + 1)
    /\ page' = 0
    /\ UNCHANGED <<config, runVars, fs, fsRemovals, exitCode, spawned, repos, ri, nextPage, ei, di,
                   workerVars, chanVars, pushed, taken, checked, cmds, outcome, listing,
                   reports, closeCount>>

\* The answers the listing API may give for page p of org index o: the
\* page it has served before, or else any page of at most MaxPerPage
\* repositories with the number of the next page (0: none).
Answers(o, p) ==
    IF p <= Len(listing[o])
      THEN {listing[o][p]}
      ELSE {[repos |-> [k \in 1..n |-> Repo(config.Orgs[o].Org, p, k)], next |-> nx] :
               n \in 0..MaxPerPage, nx \in {x \in {0, p + 1} : x <= MaxPages}}

\* lines 174, 180, 186-189: ListByOrg answers a page of repositories and
\* the number of the next page.  Page 0 asks for the first page.
ListByOrgOk ==
    /\ Alive /\ pc = "list"
    /\ LET p == IF page = 0 THEN 1 ELSE page IN
       \E ans \in Answers(oi, p) :
          /\ listReqs' = [listReqs EXCEPT ![oi] = @ + 1]
          /\ listing' = IF p <= Len(listing[oi]) THEN listing
                        ELSE [listing EXCEPT ![oi] = Append(@, ans)]
          /\ IF Len(ans.repos) = 0
               THEN /\ AfterPage(ans.next)
                    /\ UNCHANGED <<repos, ri, nextPage>>
               ELSE /\ repos' = ans.repos
                    /\ ri' = 1
                    /\ nextPage' = ans.next
                    /\ pc' = "send"
                    /\ UNCHANGED <<oi, page>>
    /\ UNCHANGED <<config, runVars, fs, fsRemovals, exitCode, spawned, allGood, ei, di,
                   workerVars, chanVars, pushed, taken, checked, cmds, outcome,
                   warned, reports, closeCount>>

\* lines 180-185: synclist <- SyncSource{Join(org.Path, *repo.Name), repo.SSHURL}
SendRepo ==
    /\ Alive /\ pc = "send"
    /\ Send([id |-> 0,
             Path |-> Join(config.Orgs[oi].Path, repos[ri].Name),
             CloneURL |-> repos[ri].SSHURL])
    /\ IF ri < Len(repos)
         THEN /\ ri' = ri + 1
              /\ UNCHANGED <<repos, nextPage, oi, page, pc>>
         ELSE /\ ri' = 1
              /\ repos' = <<>>
              /\ nextPage' = 0
              /\ AfterPage(nextPage)
    /\ UNCHANGED <<config, runVars, fs, fsRemovals, exitCode, spawned, allGood, ei, di,
                   workerVars, closed, drains, warned, listReqs, listing,
                   reports, closeCount>>

\* lines 196-197, 199-202: the test of one syncpoint iteration
ExtraCheck ==
    /\ Alive /\ pc = "extra"
    /\ IF exists(config.ExtraPaths[ei])
         THEN /\ pc' = "sendExtra"
              /\ UNCHANGED <<allGood, ei, warned>>
         ELSE /\ allGood' = FALSE
              /\ warned' = warned \cup {<<"nosync", ei>>}
              /\ ei' = ei + 1
              /\ pc' = AfterExtra(ei + 1)
    /\ UNCHANGED <<config, runVars, fs, fsRemovals, exitCode, spawned, oi, page, repos, ri,
                   nextPage, di, workerVars, chanVars, pushed, taken, checked, cmds,
                   outcome, listReqs, listing, reports, closeCount>>

\* line 198: synclist <- SyncSource{Path: extraPath}
SendExtra ==
    /\ Alive /\ pc = "sendExtra"
    /\ Send([id |-> 0, Path |-> config.ExtraPaths[ei], CloneURL |-> NoURL])
    /\ ei' = ei + 1
    /\ pc' = AfterExtra(ei + 1)
    /\ UNCHANGED <<config, runVars, fs, fsRemovals, exitCode, spawned, allGood, oi, page, repos,
                   ri, nextPage, di, workerVars, closed, drains, warned, listReqs,
                   listing, reports,
                   closeCount>>

\* line 204: close(synclist)
Close ==
    /\ Alive /\ pc = "close"
    /\ closed' = TRUE
    /\ closeCount' = closeCount + 1
    /\ pc' = "drain"
    /\ UNCHANGED <<config, runVars, fs, fsRemovals, exitCode, spawned, allGood, oi, page, repos,
                   ri, nextPage, ei, di, workerVars, synclist, drains, pushed, taken,
                   checked, cmds, outcome, warned, listReqs, listing, reports>>

\* lines 206-208: allGood = allGood && <-drain.  Go evaluates && left to
\* right and skips the receive when allGood is already false.
Drain ==
    /\ Alive /\ pc = "drain"
    /\ di <= Concurrency(config)
    /\ IF allGood
         THEN /\ Len(drains[di]) > 0
              /\ allGood' = Head(drains[di])
              /\ drains' = [drains EXCEPT ![di] = Tail(@)]
         ELSE UNCHANGED <<allGood, drains>>
    /\ di' = di + 1
    /\ UNCHANGED <<config, runVars, fs, fsRemovals, exitCode, pc, spawned, oi, page, repos, ri,
                   nextPage, ei, workerVars, synclist, closed, histVars>>

\* An exit status that ignores the aggregate.
ExitStatus_AlwaysZero(good) == "exit0"

\* lines 209-213: the status main exits with
ExitStatus(good) == IF good THEN "exit0" ELSE "exit1"

\* lines 209-213: os.Exit ends the process, workers included
Exit ==
    /\ Alive /\ pc = "drain"
    /\ di > Concurrency(config)
    /\ exitCode' = ExitStatus(allGood)
    /\ pc' = "exited"
    /\ UNCHANGED <<config, runVars, fs, fsRemovals, spawned, allGood, oi, page, repos, ri,
                   nextPage, ei, di, workerVars, chanVars, histVars>>

\* ---- syncRepositoryWorker ----

\* Command with the two tests in the other order: an origin means clone.
Command_CloneFirst(source) ==
    IF source.CloneURL # NoURL
      THEN [kind |-> "clone", prune |-> FALSE, url |-> source.CloneURL,
            dir |-> source.Path]
      ELSE IF exists(source.Path)
        THEN [kind |-> "pull", prune |-> TRUE, url |-> NoURL, dir |-> source.Path]
        ELSE NoCmd

\* Command cloning into the directory above the source's path.
Command_CloneIntoParent(source) ==
    IF exists(source.Path)
      THEN [kind |-> "pull", prune |-> TRUE, url |-> NoURL, dir |-> source.Path]
      ELSE IF source.CloneURL # NoURL
        THEN [kind |-> "clone", prune |-> FALSE, url |-> source.CloneURL,
              dir |-> SubSeq(source.Path, 1, Len(source.Path) - 1)]
        ELSE NoCmd

\* lines 114-122: the command the worker builds for a source
Command(source) ==
    IF exists(source.Path)
      THEN [kind |-> "pull", prune |-> TRUE, url |-> NoURL, dir |-> source.Path]
      ELSE IF source.CloneURL # NoURL
        THEN [kind |-> "clone", prune |-> FALSE, url |-> source.CloneURL,
              dir |-> source.Path]
        ELSE NoCmd

\* A receive that leaves the value in the buffer.
Receive_Peek(q) == q

\* line 113: what a receive leaves in the channel's buffer
Receive(q) == Tail(q)

\* line 113: for source := range sources, a source is there
WorkerRecv(w) ==
    /\ Alive /\ wpc[w] = "recv"
    /\ Len(synclist) > 0
    /\ wsource' = [wsource EXCEPT ![w] = Head(synclist)]
    /\ synclist' = Receive(synclist)
    /\ taken' = [taken EXCEPT ![Head(synclist).id] = Append(@, w)]
    /\ wpc' = [wpc EXCEPT ![w] = "check"]
    /\ UNCHANGED <<config, runVars, fs, fsRemovals, exitCode, mainVars, wcommand, wAllGood,
                   closed, drains, pushed, checked, cmds, outcome, warned, listReqs,
                   listing, reports,
                   closeCount>>

\* A worker that starts the command and does not wait for it.
WorkerCheck_StartOnly(w) ==
    /\ Alive /\ wpc[w] = "check"
    /\ LET src == wsource[w]
           command == Command(src) IN
       /\ checked' = [checked EXCEPT ![src.id] = Append(@, exists(src.Path))]
       /\ IF command # NoCmd
            THEN /\ cmds' = [cmds EXCEPT ![src.id] = Append(@, command)]
                 /\ wpc' = [wpc EXCEPT ![w] = "recv"]
                 /\ UNCHANGED exitCode
            ELSE /\ exitCode' = "panic2"
                 /\ UNCHANGED <<cmds, wpc>>
    /\ UNCHANGED <<config, runVars, fs, fsRemovals, mainVars, wsource, wcommand, wAllGood,
                   chanVars, pushed, taken, outcome, warned, listReqs, listing, reports,
                   closeCount>>

\* lines 114-123: build the command and call command.Run().  Run on the nil
\* command dereferences a nil pointer: the goroutine panics and the Go
\* runtime ends the whole process with status 2.
WorkerCheck(w) ==
    /\ Alive /\ wpc[w] = "check"
    /\ LET src == wsource[w]
           command == Command(src) IN
       /\ checked' = [checked EXCEPT ![src.id] = Append(@, exists(src.Path))]
       /\ IF command # NoCmd
            THEN /\ wcommand' = [wcommand EXCEPT ![w] = command]
                 /\ cmds' = [cmds EXCEPT ![src.id] = Append(@, command)]
                 /\ wpc' = [wpc EXCEPT ![w] = "run"]
                 /\ UNCHANGED exitCode
            ELSE /\ exitCode' = "panic2"
                 /\ UNCHANGED <<wcommand, cmds, wpc>>
    /\ UNCHANGED <<config, runVars, fs, fsRemovals, mainVars, wsource, wAllGood, chanVars,
                   pushed, taken, outcome, warned, listReqs, listing, reports, closeCount>>

\* A fold that keeps only the last command's result.
FoldOutcome_LastWins(good, ok) == ok

\* lines 123, 129, 138: the worker's allGood after a command returned; with
\* a nil error command.ProcessState.Success() is true
FoldOutcome(good, ok) == IF ok THEN good /\ TRUE ELSE FALSE

\* lines 123-139: the git command returns; a clone that succeeded has made
\* the directory
WorkerOpDone(w) ==
    /\ Alive /\ wpc[w] = "run"
    /\ \E ok \in BOOLEAN :
          /\ wAllGood' = [wAllGood EXCEPT ![w] = FoldOutcome(@, ok)]
          /\ outcome' = [outcome EXCEPT ![wsource[w].id] = Append(@, ok)]
          /\ fs' = IF ok /\ wcommand[w].kind = "clone"
                     THEN fs \cup {wcommand[w].dir} ELSE fs
    /\ wpc' = [wpc EXCEPT ![w] = "recv"]
    /\ wsource' = [wsource EXCEPT ![w] = NoSource]
    /\ wcommand' = [wcommand EXCEPT ![w] = NoCmd]
    /\ UNCHANGED <<config, runVars, fsRemovals, exitCode, mainVars, chanVars, pushed, taken,
                   checked, cmds, warned, listReqs, listing, reports, closeCount>>

\* lines 113, 141: the range ends (synclist closed and empty); done <- allGood
WorkerFinish(w) ==
    /\ Alive /\ wpc[w] = "recv"
    /\ Len(synclist) = 0 /\ closed
    /\ Len(drains[w]) < 1
    /\ drains' = [drains EXCEPT ![w] = Append(@, wAllGood[w])]
    /\ reports' = [reports EXCEPT ![w] = Append(@, wAllGood[w])]
    /\ wpc' = [wpc EXCEPT ![w] = "done"]
    /\ UNCHANGED <<config, runVars, fs, fsRemovals, exitCode, mainVars, wsource, wcommand,
                   wAllGood, synclist, closed, pushed, taken, checked, cmds, outcome,
                   warned, listReqs, listing, closeCount>>

\* ---- outside the program ----

\* somebody removes a directory while the program runs (exists reads the
\* filesystem afresh at every call, line 37)
FsRemove ==
    /\ Alive /\ fsRemovals < MaxFsRemovals
    /\ \E p \in fs : fs' = fs \ {p}
    /\ fsRemovals' = fsRemovals + 1
    /\ UNCHANGED <<config, runVars, exitCode, mainVars, workerVars, chanVars, histVars>>

Next ==
    \/ SpawnWorker
    \/ OrgCheck
    \/ ListByOrgErr
    \/ ListByOrgOk
    \/ SendRepo
    \/ ExtraCheck
    \/ SendExtra
    \/ Close
    \/ Drain
    \/ Exit
    \/ \E w \in Workers : WorkerRecv(w)
    \/ \E w \in Workers : WorkerCheck(w)
    \/ \E w \in Workers : WorkerOpDone(w)
    \/ \E w \in Workers : WorkerFinish(w)
    \/ FsRemove

Spec == Init /\ [][Next]_vars

\* ---- the program run again ----

\* the paths for which a command of the given kind ran with success in this run
DoneOk(kind) ==
    {pushed[id].Path : id \in {i \in 1..Len(pushed) :
        \E k \in 1..Len(outcome[i]) : cmds[i][k].kind = kind /\ outcome[i][k]}}

\* lines 144-162: the process has ended and the program is started again with
\* the same configuration, on the file system the run left behind and against
\* the same remote listing
Restart ==
    /\ ~Alive
    /\ Len(earlier) < MaxRuns - 1
    /\ earlier' = Append(earlier, [exit |-> exitCode, cloned |-> DoneOk("clone"),
                                   pulled |-> DoneOk("pull")])
    /\ synclist' = <<>>
    /\ closed' = FALSE
    /\ drains' = [w \in Workers |-> <<>>]
    /\ pc' = "spawn"
    /\ spawned' = 0
    /\ allGood' = TRUE
    /\ oi' = 1
    /\ page' = 0
    /\ repos' = <<>>
    /\ ri' = 1
    /\ nextPage' = 0
    /\ ei' = 1
    /\ di' = 1
    /\ exitCode' = Running
    /\ wpc' = [w \in Workers |-> "unborn"]
    /\ wsource' = [w \in Workers |-> NoSource]
    /\ wcommand' = [w \in Workers |-> NoCmd]
    /\ wAllGood' = [w \in Workers |-> TRUE]
    /\ pushed' = <<>>
    /\ taken' = <<>>
    /\ checked' = <<>>
    /\ cmds' = <<>>
    /\ outcome' = <<>>
    /\ warned' = {}
    /\ listReqs' = [o \in 1..Len(config.Orgs) |-> 0]
    /\ reports' = [w \in Workers |-> <<>>]
    /\ closeCount' = 0
    /\ UNCHANGED <<config, fs, fsRemovals, fsStart, listing>>

\* Runs in a row on a file system nothing else touches.
NextTwice ==
    \/ SpawnWorker
    \/ OrgCheck
    \/ ListByOrgErr
    \/ ListByOrgOk
    \/ SendRepo
    \/ ExtraCheck
    \/ SendExtra
    \/ Close
    \/ Drain
    \/ Exit
    \/ \E w \in Workers : WorkerRecv(w)
    \/ \E w \in Workers : WorkerCheck(w)
    \/ \E w \in Workers : WorkerOpDone(w)
    \/ \E w \in Workers : WorkerFinish(w)
    \/ Restart

SpecTwice == Init /\ [][NextTwice]_vars

\* ---- what the history says ----

Ids == 1..Len(pushed)

\* main called os.Exit (as opposed to the runtime ending a panicking process)
ExitedByMain == exitCode \in {"exit0", "exit1"}

\* a git command was run for source id and has returned
Completed(id) == Len(outcome[id]) > 0

\* a git command was run for source id and every one run for it succeeded
Succeeded(id) == Completed(id) /\ \A k \in 1..Len(outcome[id]) : outcome[id][k]

\* a git command run for source id failed
Failed(id) == \E k \in 1..Len(outcome[id]) : ~outcome[id][k]

\* ---- C1 ----
\* C1: once the process has ended, its status is the success code exactly
\* when no producer-level warning was logged and every source that was sent
\* on synclist had its git command run with success.
C1_ExitZeroIffAllGood ==
    exitCode # Running =>
        (exitCode = "exit0" <=> (warned = {} /\ \A id \in Ids : Succeeded(id)))

\* main exits with the failure code after one source failed, another
\* succeeded and no producer warned
C1_Witness ==
    /\ exitCode = "exit1"
    /\ warned = {}
    /\ Cardinality({id \in Ids : Failed(id)}) = 1
    /\ \E id \in Ids : Succeeded(id)

\* ---- C2 ----
\* C2: when main emits the exit status, every source sent on synclist has had
\* its git command run to completion.  (Stated for os.Exit in main only;
\* the code violates it.)
C2_NoWorkLost ==
    ExitedByMain => \A id \in Ids : Completed(id)

\* ---- C3 ----
\* C3: when main emits the exit status, every worker has reported (sent its
\* allGood on its drain), whatever main's allGood was.  (The code violates it.)
C3_ExitAfterAllWorkersReported ==
    ExitedByMain => \A w \in Workers : wpc[w] = "done"

\* ---- C4 ----
\* C4: every source sent on synclist is received at most once, by at most one
\* worker, and at most one command is ever started for it.
C4_NoDuplicateWork ==
    \A id \in Ids : Len(taken[id]) <= 1 /\ Len(cmds[id]) <= 1

\* two workers hold two different sources at the same time
C4_Witness ==
    \E v, w \in Workers :
        /\ v # w
        /\ wpc[v] = "run" /\ wpc[w] = "run"
        /\ wsource[v].id # wsource[w].id
        /\ taken[wsource[v].id] = <<v>> /\ taken[wsource[w].id] = <<w>>

\* ---- C5 ----
\* C5: synclist is closed at most once, and exactly once by the time main
\* reads the drains; it is closed only when the org loop and the syncpoint
\* loop are over, and nothing is sent on it once it is closed.
C5_CloseOnceAfterProducers ==
    /\ [](/\ closeCount <= 1
          /\ pc \in {"drain", "exited"} => closeCount = 1
          /\ closed => /\ closeCount = 1
                       /\ oi > Len(config.Orgs)
                       /\ ei > Len(config.ExtraPaths)
                       /\ pc \in {"drain", "exited"})
    /\ [][closed => (closed' /\ pushed' = pushed /\ closeCount' = closeCount)]_vars

\* synclist is closed after an org producer stopped on a page error with a
\* source of an earlier page sent, and a syncpoint was sent after that
C5_Witness ==
    /\ closed
    /\ \E o \in 1..Len(config.Orgs) : <<"page", o>> \in warned /\ listReqs[o] > 1
    /\ Len(pushed) > 1
    /\ pushed[Len(pushed)].CloneURL = NoURL

\* ---- C6 ----
\* the worker found source id with no directory at its path and no origin
Unsyncable(id) ==
    /\ checked[id] # <<>>
    /\ ~checked[id][1]
    /\ pushed[id].CloneURL = NoURL

\* C6: a worker that finds its source without directory and without origin
\* starts no command for it, turns its own allGood false and goes on to the
\* next source, and the process keeps running.  (The code violates it:
\* command.Run() on the nil command panics.)
C6_UnsyncableIsSkipped ==
    \A id \in Ids :
        Unsyncable(id) =>
            /\ exitCode # "panic2"
            /\ cmds[id] = <<>>
            /\ \A k \in 1..Len(taken[id]) :
                  ~wAllGood[taken[id][k]] /\ wsource[taken[id][k]].id # id

\* ---- C7 ----
\* C7: a failed clone or pull, or a producer-level warning, interrupts
\* nobody: when main exits after one, the workers have received every
\* source from synclist and none is in the middle of one.  (The code
\* violates it.)
C7_FailureInterruptsNobody ==
    (ExitedByMain /\ (warned # {} \/ \E id \in Ids : Failed(id))) =>
        /\ synclist = <<>>
        /\ \A w \in Workers : wpc[w] \in {"recv", "done"}

\* ---- C8 ----
\* C8: for a source whose directory existed when the worker looked, the
\* commands started are exactly one git pull --prune in that directory.
C8_ExistingPathIsPulled ==
    \A id \in Ids :
        (checked[id] # <<>> /\ checked[id][1]) =>
            cmds[id] = <<[kind |-> "pull", prune |-> TRUE, url |-> NoURL,
                          dir |-> pushed[id].Path]>>

\* a source that carries an origin and one that carries none were both
\* found existing and pulled
C8_Witness ==
    /\ \E id \in Ids : /\ pushed[id].CloneURL # NoURL
                       /\ checked[id] = <<TRUE>> /\ Completed(id)
    /\ \E id \in Ids : /\ pushed[id].CloneURL = NoURL
                       /\ checked[id] = <<TRUE>> /\ Completed(id)

\* ---- C9 ----
\* C9: for a source whose directory did not exist when the worker looked and
\* that carries an origin, the commands started are exactly one git clone
\* from that origin into that path.
C9_MissingPathWithOriginIsCloned ==
    \A id \in Ids :
        (checked[id] # <<>> /\ ~checked[id][1] /\ pushed[id].CloneURL # NoURL) =>
            cmds[id] = <<[kind |-> "clone", prune |-> FALSE,
                          url |-> pushed[id].CloneURL, dir |-> pushed[id].Path]>>

\* a clone from an org's listing has run and made the directory
C9_Witness ==
    \E id \in Ids :
        /\ pushed[id].CloneURL # NoURL
        /\ checked[id] = <<FALSE>>
        /\ Succeeded(id)
        /\ pushed[id].Path \in fs

\* ---- C10 ----
OrgIds == 1..Len(config.Orgs)

PageErr(o) == <<"page", o>> \in warned

\* the syncpoints sent so far
ExtrasSent == Cardinality({id \in Ids : pushed[id].CloneURL = NoURL})

\* the syncpoints found missing so far
ExtrasMissing == Cardinality({e \in 1..Len(config.ExtraPaths) : <<"nosync", e>> \in warned})

\* C10: a page error turns allGood false for good and ends that org's
\* producer with no further ListByOrg call for it; the step leaves synclist
\* and what was sent as they are and moves main to the next org (or to the
\* syncpoints); and when main comes to close synclist, every org has been
\* looked at and every syncpoint has been sent or found missing.
C10_PageErrorEndsOnlyThatOrg ==
    /\ [](\A o \in OrgIds : PageErr(o) => (~allGood /\ oi > o))
    /\ [][\A o \in OrgIds : PageErr(o) => listReqs'[o] = listReqs[o]]_vars
    /\ [][\A o \in OrgIds :
            (~PageErr(o) /\ <<"page", o>> \in warned') =>
                /\ synclist' = synclist
                /\ pushed' = pushed
                /\ oi' = o + 1
                /\ pc' = IF o < Len(config.Orgs) THEN "org"
                         ELSE IF Len(config.ExtraPaths) > 0 THEN "extra" ELSE "close"]_vars
    /\ [](pc \in {"close", "drain", "exited"} =>
            /\ \A o \in OrgIds : listReqs[o] > 0 \/ <<"nobase", o>> \in warned
            /\ ExtrasSent + ExtrasMissing = Len(config.ExtraPaths))

\* org 1's second page failed after its first page's repository was sent,
\* and org 2 was listed afterwards
C10_Witness ==
    /\ Len(config.Orgs) = 2
    /\ PageErr(1)
    /\ listReqs[1] = 2
    /\ \E id \in Ids : pushed[id].CloneURL # NoURL /\ pushed[id].CloneURL[2] = 1
    /\ listReqs[2] > 0
    /\ pc = "drain"

\* ---- C11 ----
\* main found org index o's base directory missing
NoBase(o) == <<"nobase", o>> \in warned

\* source id was listed for org index o (its origin names the org)
FromOrg(id, o) ==
    pushed[id].CloneURL # NoURL /\ pushed[id].CloneURL[2] = config.Orgs[o].Org

\* C11: for an org whose base directory main found missing there is no
\* ListByOrg call, no source sent and no command started with an origin of
\* that org, main's allGood is false and the process never exits with the
\* success code; and when main comes to close synclist every other org has
\* been listed or found missing and every syncpoint sent or found missing.
C11_MissingBaseSkipsOnlyThatOrg ==
    /\ \A o \in OrgIds :
          NoBase(o) =>
              /\ listReqs[o] = 0
              /\ ~allGood
              /\ exitCode # "exit0"
              /\ \A id \in Ids : ~FromOrg(id, o)
              /\ \A id \in Ids : \A k \in 1..Len(cmds[id]) :
                    cmds[id][k].url = NoURL \/ cmds[id][k].url[2] # config.Orgs[o].Org
    /\ pc \in {"close", "drain", "exited"} =>
          /\ \A o \in OrgIds : listReqs[o] > 0 \/ NoBase(o)
          /\ ExtrasSent + ExtrasMissing = Len(config.ExtraPaths)

\* org 1's base directory was missing, org 2 was listed and its repository
\* cloned, and main exited with the failure code
C11_Witness ==
    /\ Len(config.Orgs) = 2
    /\ NoBase(1)
    /\ listReqs[2] > 0
    /\ \E id \in Ids : FromOrg(id, 2) /\ Succeeded(id)
    /\ exitCode = "exit1"

\* ---- C12 ----
\* the sources without origin sent for directory p
SentForPath(p) ==
    Cardinality({id \in Ids : pushed[id].CloneURL = NoURL /\ pushed[id].Path = p})

\* the syncpoint entries naming directory p that main has handled and found
\* existing
FoundForPath(p) ==
    Cardinality({e \in 1..Len(config.ExtraPaths) :
                    /\ config.ExtraPaths[e] = p
                    /\ e < ei
                    /\ <<"nosync", e>> \notin warned})

\* the git pull commands started so far
PullsIssued ==
    Cardinality({id \in Ids : \E k \in 1..Len(cmds[id]) : cmds[id][k].kind = "pull"})

\* The producer half of C12, which the code keeps: every syncpoint entry
\* main found existing has exactly one source of its path and no origin,
\* and an entry found missing has none and turns allGood false.
C12_SyncpointsSentOnce ==
    /\ \A p \in ExtraChoices : SentForPath(p) = FoundForPath(p)
    /\ \A e \in 1..Len(config.ExtraPaths) : <<"nosync", e>> \in warned => ~allGood

\* C12: every syncpoint entry found existing has exactly one source with its
\* path and no origin, one found missing has none and fails the run; and
\* with no orgs configured, when main exits exactly as many pulls were
\* issued as syncpoints were found existing, and main exits with the success
\* code if all of them succeeded.  (The code violates the count of pulls.)
C12_SyncpointsPulledOnce ==
    /\ C12_SyncpointsSentOnce
    /\ (ExitedByMain /\ Len(config.Orgs) = 0) =>
          /\ PullsIssued = ExtrasSent
          /\ (ExtrasMissing = 0 /\ \A id \in Ids : Succeeded(id)) => exitCode = "exit0"

\* ---- C13 ----
\* main is through with org index o, with its base directory found and
\* every page fetched without error
ListedInFull(o) == oi > o /\ ~PageErr(o) /\ ~NoBase(o)

\* the repositories served for org index o, as <<page, position>>
ReposServed(o) ==
    UNION {{<<i, k>> : k \in 1..Len(listing[o][i].repos)} : i \in 1..Len(listing[o])}

\* the source main is to build for each repository served for org index o
RepoSources(o) ==
    {[Path |-> Join(config.Orgs[o].Path, listing[o][ik[1]].repos[ik[2]].Name),
      CloneURL |-> listing[o][ik[1]].repos[ik[2]].SSHURL] : ik \in ReposServed(o)}

\* C13: for an org listed in full over k pages, main made exactly k
\* ListByOrg calls, each page but the last named its successor and the last
\* named none (an empty page does not end the paging), and the sources sent
\* for the org are exactly one per repository served, with path
\* Join(base, name) and the repository's clone URL as origin.
C13_OrgListedPageByPage ==
    \A o \in OrgIds :
        ListedInFull(o) =>
            LET k == Len(listing[o])
                ids == {id \in Ids : FromOrg(id, o)} IN
            /\ k >= 1
            /\ listReqs[o] = k
            /\ listing[o][k].next = 0
            /\ \A i \in 1..(k - 1) : listing[o][i].next = i + 1
            /\ Cardinality(ids) = Cardinality(ReposServed(o))
            /\ {[Path |-> pushed[id].Path, CloneURL |-> pushed[id].CloneURL] : id \in ids}
                 = RepoSources(o)

\* org 1 was listed in full over two pages, the first of them empty, and
\* the repository of the second page was sent
C13_Witness ==
    /\ Len(config.Orgs) > 0
    /\ ListedInFull(1)
    /\ Len(listing[1]) = 2
    /\ Len(listing[1][1].repos) = 0
    /\ Cardinality({id \in Ids : FromOrg(id, 1)}) = 1

\* ---- C14 ----
\* the workers main has started
Started == {w \in DOMAIN wpc : wpc[w] # "unborn"}

InFlight == {id \in Ids : Len(cmds[id]) > Len(outcome[id])}

\* those of them that worker w received
InFlightOf(w) == {id \in InFlight : \E k \in 1..Len(taken[id]) : taken[id][k] = w}

\* C15: at any time at most as many git commands are running as the resolved
\* concurrency level, and at most one per worker.
C15_BoundedConcurrency ==
    LET n == IF config.Concurrency > 0 THEN config.Concurrency ELSE HostCPUs IN
    /\ Cardinality(InFlight) <= n
    /\ \A id \in InFlight : Len(cmds[id]) - Len(outcome[id]) = 1
    /\ \A w \in Workers : Cardinality(InFlightOf(w)) <= 1

\* with two workers configured, two git commands run at the same time
C15_Witness ==
    /\ config.Concurrency = 2
    /\ Cardinality(InFlight) = 2
    /\ \A w \in Workers : Cardinality(InFlightOf(w)) = 1

\* ---- C16 ----
\* a step of the program itself (main or a worker), not of the file system
ProgramStep ==
    \/ SpawnWorker \/ OrgCheck \/ ListByOrgErr \/ ListByOrgOk \/ SendRepo
    \/ ExtraCheck \/ SendExtra \/ Close \/ Drain \/ Exit
    \/ \E w \in Workers : WorkerRecv(w) \/ WorkerCheck(w) \/ WorkerOpDone(w) \/ WorkerFinish(w)

\* No deadlock: while the process is alive some goroutine can take a step, also
\* with more sources than synclist has room for.  (Holds; it is the part of C16
\* the code keeps.)
C16_NoDeadlock ==
    Alive => ENABLED ProgramStep

\* main is blocked sending on a full synclist, and only a worker can release it
C16_ProducerBlockedOnFullQueue ==
    /\ Alive /\ Len(synclist) = SynclistCap /\ pc \in {"send", "sendExtra"}
    /\ ~ENABLED (SendRepo \/ SendExtra)

\* C16: every run ends with synclist closed, every worker out of its loop and
\* its report sent, and the process exited: a run that can take no further
\* step is in that state.  (The code violates it.)
C16_RunEndsClosedAndReported ==
    ~Alive => /\ closeCount = 1
              /\ \A w \in Workers : wpc[w] = "done" /\ Len(reports[w]) = 1

\* ---- C17 ----
\* every source sent in this run has a path that existed when the first run started
TargetsExisted == \A id \in Ids : pushed[id].Path \in fsStart

\* every command started in this run is a pull
OnlyPulls == \A id \in Ids : \A k \in 1..Len(cmds[id]) : cmds[id][k].kind = "pull"

\* the paths cloned with success in an earlier run
ClonedEarlier == UNION {earlier[r].cloned : r \in 1..Len(earlier)}

\* every directory the configuration names existed when the first run started
ConfiguredExisted == ConfigPaths(config) \subseteq fsStart

\* C17 as stated: in the first run and in the run after it, sources whose
\* paths all existed at the start get only pulls; if furthermore the
\* configured directories existed and no pull fails, the run ends with the
\* success code; and a path cloned with success in the first run is never
\* cloned in the second.  (Violated: a failed page fetch makes the status 1
\* although every pull succeeded.)
C17_IdempotentRuns_AsStated ==
    /\ TargetsExisted => OnlyPulls
    /\ (ExitedByMain /\ TargetsExisted /\ ConfiguredExisted /\ \A id \in Ids : ~Failed(id))
          => exitCode = "exit0"
    /\ \A id \in Ids : pushed[id].Path \in ClonedEarlier =>
          \A k \in 1..Len(cmds[id]) : cmds[id][k].kind # "clone"

\* C17: in the first run and in the run after it, sources whose paths all
\* existed at the start get only pulls; if furthermore the configured
\* directories existed, no page of a listing failed and no pull fails, the run
\* ends with the success code; and a path cloned with success in the first run
\* is never cloned in the second.
C17_IdempotentRuns ==
    /\ TargetsExisted => OnlyPulls
    /\ (/\ ExitedByMain /\ TargetsExisted /\ ConfiguredExisted
        /\ \A o \in OrgIds : ~PageErr(o)
        /\ \A id \in Ids : ~Failed(id))
          => exitCode = "exit0"
    /\ \A id \in Ids : pushed[id].Path \in ClonedEarlier =>
          \A k \in 1..Len(cmds[id]) : cmds[id][k].kind # "clone"

\* both runs ended with the success code; a path that existed from the start
\* was pulled in both, and a path cloned in the first was pulled in the second
C17_Witness ==
    /\ Len(earlier) = 1
    /\ earlier[1].exit = "exit0" /\ exitCode = "exit0"
    /\ \E id \in Ids : /\ pushed[id].Path \in fsStart \cap earlier[1].pulled
                       /\ cmds[id][1].kind = "pull" /\ Succeeded(id)
    /\ \E id \in Ids : /\ pushed[id].Path \in earlier[1].cloned
                       /\ cmds[id][1].kind = "pull" /\ Succeeded(id)

\* ---- C18 ----
\* the sources worker w received
TakenBy(w) == {id \in Ids : \E k \in 1..Len(taken[id]) : taken[id][k] = w}

\* C18: a worker's allGood is at every moment the AND, seeded true, of the
\* outcomes of the commands that have returned to it, and the one value it
\* sends on its drain is the AND of the outcomes of all sources it received:
\* true for a worker that received none, false once one failed whatever
\* followed.
C18_ReportIsAndOfOutcomes ==
    \A w \in Workers :
        /\ wAllGood[w] = (\A id \in TakenBy(w) : ~Failed(id))
        /\ \A k \in 1..Len(reports[w]) :
              reports[w][k] = (\A id \in TakenBy(w) : Succeeded(id))

\* one worker's first source failed and its second succeeded and it reported
\* false; the other worker received nothing and reported true
C18_Witness ==
    /\ Cardinality(Workers) = 2
    /\ \E w \in Workers :
          /\ reports[w] = <<FALSE>>
          /\ \E i, j \in TakenBy(w) : i < j /\ Failed(i) /\ Succeeded(j)
          /\ \A v \in Workers \ {w} : TakenBy(v) = {} /\ reports[v] = <<TRUE>>

\* ---- C19 ----
\* the results main has received from worker w's drain
Obtained(w) == Len(reports[w]) - Len(drains[w])

\* The ordering half of C19 (holds): a worker sends at most once, only with
\* synclist closed and empty and every command it started returned; at the
\* end of its loop the send is possible at once, its drain being empty; and
\* main obtains nothing that was not sent that way.
C19_AtMostOneReportAfterQueueDrained ==
    \A w \in Workers :
        /\ Len(reports[w]) <= 1 /\ Len(drains[w]) <= 1
        /\ Len(reports[w]) = 1 =>
              /\ wpc[w] = "done" /\ closed /\ synclist = <<>>
              /\ InFlightOf(w) = {}
              /\ \A id \in TakenBy(w) : Completed(id)
        /\ (Alive /\ wpc[w] = "recv" /\ closed /\ synclist = <<>>) =>
              drains[w] = <<>> /\ ENABLED WorkerFinish(w)
        /\ Obtained(w) \in {0, 1}
        /\ Obtained(w) = 1 => Len(reports[w]) = 1

\* a worker reported after the command for the last source returned, and
\* main has obtained the report
C19_ReportObtained ==
    \E w \in Workers : Obtained(w) = 1 /\ TakenBy(w) # {} /\ closed

\* C19: each worker sends exactly one outcome on its drain: at most one, sent
\* only with synclist closed and empty and its last command returned, obtained
\* by main only after that, and one by the time the process has ended.  (The
\* code violates the last part.)
C19_ExactlyOneReportAfterQueueDrained ==
    /\ C19_AtMostOneReportAfterQueueDrained
    /\ ~Alive => \A w \in Workers : Len(reports[w]) = 1

\* ---- C20 ----
\* C20: no two git commands are in progress on the same local path at the
\* same time.  (The code violates it when two sources have the same path.)
C20_NoTwoCommandsOnOnePath ==
    \A i, j \in InFlight : i # j => pushed[i].Path # pushed[j].Path

====
